---------------------------- MODULE Spec2Model ----------------------------
(***************************************************************************)
(* Model of the weather-dashboard crate: WeatherClient::fetch_weather      *)
(* (client.rs), the WeatherError taxonomy (error.rs) and the provider      *)
(* schema (models.rs).                                                     *)
(*                                                                         *)
(* f64 values are written in tenths (150 stands for 15.0); the code only   *)
(* copies them, it never computes with them.  Texts are strings and        *)
(* format! is concatenation.                                               *)
(*                                                                         *)
(* The functions of CP_with_rust (cp3, cp4, cp6, cp7, cp10) follow, each   *)
(* under a specification of its own: SpecKid, SpecNice, SpecWish and       *)
(* SpecSnow.                                                               *)
(***************************************************************************)
EXTENDS Integers, Sequences, FiniteSets, TLC

VARIABLES api_key, calls, main, stdout, stderr, exit_code,
          csv_row, kid, good_deeds, bad_deeds, nice,
          s1, s2, wish,
          locations, best, rest, found

\* the process around the client: main.rs and its streams
process == <<main, stdout, stderr, exit_code>>

\* CP_with_rust/cp10.rs: the argument and the result of Kid::parse_row, the
\* arguments and the result of Kid::is_nice
cp10 == <<csv_row, kid, good_deeds, bad_deeds, nice>>

\* CP_with_rust/cp3.rs, cp4.rs: the arguments and the result of longer_wish
cp4 == <<s1, s2, wish>>

\* CP_with_rust/cp6.rs, cp7.rs: the argument, the locals and the result of
\* find_best_location
cp7 == <<locations, best, rest, found>>

exercises == <<cp10, cp4, cp7>>

vars == <<api_key, calls, main, stdout, stderr, exit_code, exercises>>

(***************************************************************************)
(* Bounds of the model.                                                    *)
(***************************************************************************)
NumCalls == 2

CallIds == 1..NumCalls

(***************************************************************************)
(* Inputs of the caller.                                                   *)
(***************************************************************************)
ApiKeys == {"", "KEY"}

Cities == {"", "London"}

UnitStrings == {"metric", "imperial", "Imperial", "IMPERIAL", "", "kelvin"}

ConcCities == {"", "London"}

ConcUnitStrings == {"metric", "imperial"}

(***************************************************************************)
(* models.rs: the provider schema.  A JSON object is a record; a field     *)
(* that the document leaves out is a field the record does not have.       *)
(***************************************************************************)
LocationFields == {"name", "country"}

CurrentFields == {"temp_c", "temp_f", "feelslike_c", "feelslike_f",
                  "humidity", "condition", "wind_kph", "wind_mph"}

U8Max == 255

IsU8(n) == n \in 0..U8Max

(***************************************************************************)
(* Provider documents.  Doc is the document of the lookup for London; the  *)
(* other documents change or leave out one thing of it.                    *)
(***************************************************************************)
Doc(tc, tf, fc, ff, hum, text, wk, wm) ==
    [location |-> [name |-> "London", country |-> "UK"],
     current  |-> [temp_c |-> tc, temp_f |-> tf,
                   feelslike_c |-> fc, feelslike_f |-> ff,
                   humidity |-> hum,
                   condition |-> [text |-> text],
                   wind_kph |-> wk, wind_mph |-> wm]]

LondonDoc == Doc(150, 590, 140, 572, 80, "Cloudy", 100, 62)

\* the two unit families of this document are not conversions of each other
OddDoc == Doc(200, 700, 0, 999, 100, "Sunny", 33, 44)

\* a place that is not the one the documents above are for
ParisDoc == [LondonDoc EXCEPT !.location = [name |-> "Paris", country |-> "France"]]

Without(r, f) == [k \in (DOMAIN r) \ {f} |-> r[k]]

WeatherDocs ==
    {LondonDoc, OddDoc, ParisDoc}
    \cup {Doc(150, 590, 140, 572, h, t, 100, 62) :
              h \in {0, 101, U8Max, U8Max + 1}, t \in {"", "Cloudy"}}

PartialDocs ==
    {[LondonDoc EXCEPT !.current = Without(LondonDoc.current, f)] :
         f \in CurrentFields}
    \cup {[LondonDoc EXCEPT !.location = Without(LondonDoc.location, f)] :
         f \in LocationFields}
    \cup {[LondonDoc EXCEPT !.current.condition = Without(LondonDoc.current.condition, "text")],
          Without(LondonDoc, "location"), Without(LondonDoc, "current"),
          [error |-> [code |-> 1006, message |-> "No matching location found."]]}

(***************************************************************************)
(* The text of a document, as the provider writes it.                      *)
(***************************************************************************)
Quote(s) == "\"" \o s \o "\""

Fixed(n) == ToString(n \div 10) \o "." \o ToString(n % 10)

RECURSIVE Join(_)
Join(members) ==
    IF members = <<>> THEN ""
    ELSE IF Len(members) = 1 THEN members[1]
    ELSE members[1] \o "," \o Join(Tail(members))

Obj(members) == "{" \o Join(members) \o "}"

Str(r, k) == IF k \in DOMAIN r THEN <<Quote(k) \o ":" \o Quote(r[k])>> ELSE <<>>

Num(r, k) == IF k \in DOMAIN r THEN <<Quote(k) \o ":" \o Fixed(r[k])>> ELSE <<>>

Whole(r, k) == IF k \in DOMAIN r THEN <<Quote(k) \o ":" \o ToString(r[k])>> ELSE <<>>

ConditionText(r) ==
    IF "condition" \in DOMAIN r
    THEN <<Quote("condition") \o ":" \o Obj(Str(r.condition, "text"))>>
    ELSE <<>>

LocationText(d) ==
    IF "location" \in DOMAIN d
    THEN <<Quote("location") \o ":"
            \o Obj(Str(d.location, "name") \o Str(d.location, "country"))>>
    ELSE <<>>

CurrentText(d) ==
    IF "current" \in DOMAIN d
    THEN <<Quote("current") \o ":"
            \o Obj(Num(d.current, "temp_c") \o Num(d.current, "temp_f")
                   \o Num(d.current, "feelslike_c") \o Num(d.current, "feelslike_f")
                   \o Whole(d.current, "humidity") \o ConditionText(d.current)
                   \o Num(d.current, "wind_kph") \o Num(d.current, "wind_mph"))>>
    ELSE <<>>

ErrorText(d) ==
    IF "error" \in DOMAIN d
    THEN <<Quote("error") \o ":"
            \o Obj(Whole(d.error, "code") \o Str(d.error, "message"))>>
    ELSE <<>>

JsonText(d) == Obj(LocationText(d) \o CurrentText(d) \o ErrorText(d))

(***************************************************************************)
(* Response bodies: a JSON document, a text that is no JSON, or a body     *)
(* whose transfer breaks off before it is complete.                        *)
(***************************************************************************)
JsonBody(d) == [readable |-> TRUE, text |-> JsonText(d), valid |-> TRUE, json |-> d]

TextBody(t) == [readable |-> TRUE, text |-> t, valid |-> FALSE]

BrokenBody == [readable |-> FALSE, cause |-> "connection closed before message completed"]

JsonBodies == {JsonBody(d) : d \in WeatherDocs \cup PartialDocs}

Bodies == JsonBodies \cup {TextBody(""), TextBody("<html>Bad Gateway: 502</html>"), BrokenBody}

(***************************************************************************)
(* What the GET request can come back with: a transport failure, or a      *)
(* response with a status and a body.                                      *)
(***************************************************************************)
TransportCauses == {"dns error", "operation timed out"}

StatusCodes == {200, 404, 500}

NoResponse == [kind |-> "none"]

Failed(cause) == [kind |-> "failed", cause |-> cause]

Response(status, body) == [kind |-> "response", status |-> status, body |-> body]

Responses == {Response(s, b) : s \in StatusCodes, b \in Bodies}

ConcCauses == {"dns error"}

ConcResponses ==
    {Response(200, JsonBody(LondonDoc)), Response(200, TextBody("")),
     Response(404, TextBody("")), Response(404, BrokenBody)}

\* client.rs:47  http_response.status().is_success()
IsSuccess(status) == status \in 200..299

\* client.rs:51-52  the Display of the status: its code and its reason phrase
Reason(status) ==
    CASE status = 200 -> "OK"
      [] status = 404 -> "Not Found"
      [] status = 500 -> "Internal Server Error"
      [] OTHER -> "<unknown status code>"

StatusText(status) == ToString(status) \o " " \o Reason(status)

(***************************************************************************)
(* error.rs: WeatherError, and the Result of fetch_weather.                *)
(***************************************************************************)
Variants == {"ApiError", "ParseError", "NetworkError", "CityNotFound"}

ApiError(msg) == [variant |-> "ApiError", msg |-> msg]

\* #[from] reqwest::Error: what the ? operator builds from a failed await
NetworkError(source) == [variant |-> "NetworkError", source |-> source]

\* #[from] serde_json::Error
ParseError(source) == [variant |-> "ParseError", source |-> source]

Pending == [tag |-> "Pending"]

Ok(data) == [tag |-> "Ok", data |-> data]

Err(e) == [tag |-> "Err", err |-> e]

\* the message without the text of the body
ApiErrorMessageWithoutBody(status, error_text) ==
    "API returned status " \o StatusText(status) \o ": "

\* client.rs:50-53
ApiErrorMessage(status, error_text) ==
    "API returned status " \o StatusText(status) \o ": " \o error_text

(***************************************************************************)
(* models.rs: decoding a body into WeatherApiResponse.  Every field of     *)
(* the structs is required; humidity is a u8; other members are ignored.   *)
(***************************************************************************)
RequiredPaths ==
    <<<<"location">>, <<"location", "name">>, <<"location", "country">>,
      <<"current">>, <<"current", "temp_c">>, <<"current", "temp_f">>,
      <<"current", "feelslike_c">>, <<"current", "feelslike_f">>,
      <<"current", "humidity">>, <<"current", "condition">>,
      <<"current", "condition", "text">>,
      <<"current", "wind_kph">>, <<"current", "wind_mph">>>>

RECURSIVE Has(_, _)
Has(d, path) ==
    IF path = <<>> THEN TRUE
    ELSE /\ Head(path) \in DOMAIN d
         /\ Has(d[Head(path)], Tail(path))

MissingPaths(d) == {i \in 1..Len(RequiredPaths) : ~Has(d, RequiredPaths[i])}

FirstMissing(d) ==
    LET i == CHOOSE k \in MissingPaths(d) : \A m \in MissingPaths(d) : k <= m
        path == RequiredPaths[i]
    IN  path[Len(path)]

Decoded(value) == [ok |-> TRUE, value |-> value]

DecodeFailed(detail) == [ok |-> FALSE, detail |-> detail]

WeatherApiResponse(d) ==
    [location |-> [name |-> d.location.name, country |-> d.location.country],
     current  |-> [temp_c |-> d.current.temp_c, temp_f |-> d.current.temp_f,
                   feelslike_c |-> d.current.feelslike_c,
                   feelslike_f |-> d.current.feelslike_f,
                   humidity |-> d.current.humidity,
                   condition |-> [text |-> d.current.condition.text],
                   wind_kph |-> d.current.wind_kph,
                   wind_mph |-> d.current.wind_mph]]

\* client.rs:57-59  http_response.json::<WeatherApiResponse>().await
Json(body) ==
    IF ~body.readable THEN DecodeFailed(body.cause)
    ELSE IF ~body.valid THEN DecodeFailed("expected value")
    ELSE IF MissingPaths(body.json) # {}
         THEN DecodeFailed("missing field " \o FirstMissing(body.json))
    ELSE IF ~IsU8(body.json.current.humidity)
         THEN DecodeFailed("invalid value: integer, expected u8")
    ELSE Decoded(WeatherApiResponse(body.json))

\* client.rs:49  http_response.text().await
Text(body) ==
    IF ~body.readable THEN DecodeFailed(body.cause) ELSE Decoded(body.text)

(***************************************************************************)
(* client.rs:63-83: the projection of the decoded response.                *)
(***************************************************************************)
\* wind speed taken from the metric field in both families
SelectUnitsMixed(response, units) ==
    IF units = "imperial"
    THEN <<response.current.temp_f, response.current.feelslike_f,
           response.current.wind_kph>>
    ELSE <<response.current.temp_c, response.current.feelslike_c,
           response.current.wind_kph>>

\* the units compared without regard to case
SelectUnitsAnyCase(response, units) ==
    IF units \in {"imperial", "Imperial", "IMPERIAL"}
    THEN <<response.current.temp_f, response.current.feelslike_f,
           response.current.wind_mph>>
    ELSE <<response.current.temp_c, response.current.feelslike_c,
           response.current.wind_kph>>

SelectUnits(response, units) ==
    IF units = "imperial"
    THEN <<response.current.temp_f, response.current.feelslike_f,
           response.current.wind_mph>>
    ELSE <<response.current.temp_c, response.current.feelslike_c,
           response.current.wind_kph>>

\* the source without the country of the location
WeatherDataNameOnly(response, units) ==
    LET selected == SelectUnits(response, units)
    IN  [temperature |-> selected[1],
         feels_like  |-> selected[2],
         humidity    |-> response.current.humidity,
         description |-> response.current.condition.text,
         wind_speed  |-> selected[3],
         source      |-> "WeatherAPI.com - " \o response.location.name]

WeatherData(response, units) ==
    LET selected == SelectUnits(response, units)
    IN  [temperature |-> selected[1],
         feels_like  |-> selected[2],
         humidity    |-> response.current.humidity,
         description |-> response.current.condition.text,
         wind_speed  |-> selected[3],
         source      |-> "WeatherAPI.com - " \o response.location.name
                            \o ", " \o response.location.country]

\* client.rs:34-37
Url(key, city) ==
    "https://api.weatherapi.com/v1/current.json?key=" \o key
        \o "&q=" \o city \o "&aqi=no"

(***************************************************************************)
(* One call of fetch_weather.  pc is the await point the call stands at;   *)
(* line is the line of client.rs the call returned from.  requests,        *)
(* classified, decoding and path record what the call has done so far.     *)
(***************************************************************************)
IdleCall ==
    [pc |-> "idle", city |-> "", units |-> "", url |-> "",
     http_response |-> NoResponse, result |-> Pending, line |-> 0,
     requests |-> 0, classified |-> FALSE, decoding |-> FALSE, path |-> <<>>]

Goto(call, pc) == [call EXCEPT !.pc = pc, !.path = Append(@, pc)]

Return(call, result, line) ==
    [Goto(call, "Returned") EXCEPT !.result = result, !.line = line]

\* an empty city refused before any request is made
BeginValidated(i, city, units) ==
    /\ calls[i].pc = "idle"
    /\ calls' = [calls EXCEPT ![i] =
                    IF city = ""
                    THEN Return([IdleCall EXCEPT !.city = city, !.units = units],
                                Err([variant |-> "CityNotFound", msg |-> city]), 32)
                    ELSE [Goto(IdleCall, "Built") EXCEPT
                             !.city = city, !.units = units,
                             !.url = Url(api_key, city)]]
    /\ UNCHANGED <<api_key, process, exercises>>

\* client.rs:32-37
Begin(i, city, units) ==
    /\ calls[i].pc = "idle"
    /\ calls' = [calls EXCEPT ![i] =
                    [Goto(IdleCall, "Built") EXCEPT
                        !.city = city, !.units = units,
                        !.url = Url(api_key, city)]]
    /\ UNCHANGED <<api_key, process, exercises>>

\* client.rs:40-43  self.client.get(&url).send()
SendRequest(i) ==
    /\ calls[i].pc = "Built"
    /\ calls' = [calls EXCEPT ![i] =
                    [Goto(@, "Sent") EXCEPT !.requests = @ + 1]]
    /\ UNCHANGED <<api_key, process, exercises>>

\* a failed request sent once more before the failure is returned
SendFailsRetried(i, cause) ==
    /\ calls[i].pc = "Sent"
    /\ calls' = [calls EXCEPT ![i] =
                    IF @.requests < 2
                    THEN [Goto(@, "Sent") EXCEPT !.requests = @ + 1]
                    ELSE Return([@ EXCEPT !.http_response = Failed(cause)],
                                Err(NetworkError(cause)), 44)]
    /\ UNCHANGED <<api_key, process, exercises>>

\* the failed request treated as a response to classify
SendFailsClassified(i, cause) ==
    /\ calls[i].pc = "Sent"
    /\ calls' = [calls EXCEPT ![i] =
                    Return([@ EXCEPT !.http_response = Failed(cause),
                                     !.classified = TRUE],
                           Err(ApiError(cause)), 50)]
    /\ UNCHANGED <<api_key, process, exercises>>

\* client.rs:44  .await? on a request that failed
SendFails(i, cause) ==
    /\ calls[i].pc = "Sent"
    /\ calls' = [calls EXCEPT ![i] =
                    Return([@ EXCEPT !.http_response = Failed(cause)],
                           Err(NetworkError(cause)), 44)]
    /\ UNCHANGED <<api_key, process, exercises>>

\* a server error answered by sending the request again
ResponseArrivesRetried(i, response) ==
    /\ calls[i].pc = "Sent"
    /\ calls' = [calls EXCEPT ![i] =
                    IF response.status >= 500 /\ @.requests < 2
                    THEN [Goto(@, "Sent") EXCEPT !.requests = @ + 1]
                    ELSE [Goto(@, IF IsSuccess(response.status)
                                  THEN "AwaitJson" ELSE "AwaitText") EXCEPT
                             !.http_response = response,
                             !.classified = TRUE,
                             !.decoding = IsSuccess(response.status)]]
    /\ UNCHANGED <<api_key, process, exercises>>

\* client.rs:44-49 and 57-58: the response is there, its status is looked at
\* and the body is asked for, as text or as JSON
ResponseArrives(i, response) ==
    /\ calls[i].pc = "Sent"
    /\ calls' = [calls EXCEPT ![i] =
                    [Goto(@, IF IsSuccess(response.status)
                             THEN "AwaitJson" ELSE "AwaitText") EXCEPT
                        !.http_response = response,
                        !.classified = TRUE,
                        !.decoding = IsSuccess(response.status)]]
    /\ UNCHANGED <<api_key, process, exercises>>

\* the status kept when the body cannot be read
TextOutcomeKeepsStatus(status, body) ==
    LET error_text == Text(body)
    IN  IF ~error_text.ok
        THEN [result |-> Err(ApiError(ApiErrorMessage(status, ""))), line |-> 50]
        ELSE [result |-> Err(ApiError(ApiErrorMessage(status, error_text.value))),
              line |-> 50]

\* client.rs:48-53
TextOutcome(status, body) ==
    LET error_text == Text(body)
    IN  IF ~error_text.ok
        THEN [result |-> Err(NetworkError(error_text.detail)), line |-> 49]
        ELSE [result |-> Err(ApiError(ApiErrorMessage(status, error_text.value))),
              line |-> 50]

\* the error written to the error stream before it is returned
TextDonePrints(i) ==
    /\ calls[i].pc = "AwaitText"
    /\ LET out == TextOutcome(calls[i].http_response.status,
                              calls[i].http_response.body)
       IN  /\ calls' = [calls EXCEPT ![i] = Return(@, out.result, out.line)]
           /\ stderr' = Append(stderr, "request failed")
    /\ UNCHANGED <<api_key, main, stdout, exit_code, exercises>>

TextDone(i) ==
    /\ calls[i].pc = "AwaitText"
    /\ LET out == TextOutcome(calls[i].http_response.status,
                              calls[i].http_response.body)
       IN  calls' = [calls EXCEPT ![i] = Return(@, out.result, out.line)]
    /\ UNCHANGED <<api_key, process, exercises>>

\* a body that does not decode reported as a parse failure
JsonOutcomeParseError(body, units) ==
    LET response == Json(body)
    IN  IF ~response.ok
        THEN [result |-> Err(IF body.readable THEN ParseError(response.detail)
                             ELSE NetworkError(response.detail)),
              line |-> 59]
        ELSE [result |-> Ok(WeatherData(response.value, units)), line |-> 76]

\* a reading of zeros in place of a body that does not decode
JsonOutcomeDefault(body, units) ==
    LET response == Json(body)
    IN  IF ~response.ok
        THEN [result |-> Ok([temperature |-> 0, feels_like |-> 0, humidity |-> 0,
                             description |-> "", wind_speed |-> 0, source |-> ""]),
              line |-> 76]
        ELSE [result |-> Ok(WeatherData(response.value, units)), line |-> 76]

\* the body kept in one place that all calls on the client share
JsonOutcomeShared(body, units) ==
    LET waiting == {j \in CallIds : calls[j].pc = "AwaitJson"}
        first == CHOOSE j \in waiting : \A k \in waiting : j <= k
        response == Json(calls[first].http_response.body)
    IN  IF ~response.ok
        THEN [result |-> Err(NetworkError(response.detail)), line |-> 59]
        ELSE [result |-> Ok(WeatherData(response.value, units)), line |-> 76]

\* the reading numbered by the calls that returned before it
JsonOutcomeNumbered(body, units) ==
    LET response == Json(body)
        earlier == Cardinality({j \in CallIds : calls[j].pc = "Returned"})
    IN  IF ~response.ok
        THEN [result |-> Err(NetworkError(response.detail)), line |-> 59]
        ELSE [result |-> Ok([WeatherData(response.value, units) EXCEPT
                                !.source = @ \o " #" \o ToString(earlier)]),
              line |-> 76]

\* client.rs:57-83
JsonOutcome(body, units) ==
    LET response == Json(body)
    IN  IF ~response.ok
        THEN [result |-> Err(NetworkError(response.detail)), line |-> 59]
        ELSE [result |-> Ok(WeatherData(response.value, units)), line |-> 76]

JsonDone(i) ==
    /\ calls[i].pc = "AwaitJson"
    /\ LET out == JsonOutcome(calls[i].http_response.body, calls[i].units)
       IN  calls' = [calls EXCEPT ![i] = Return(@, out.result, out.line)]
    /\ UNCHANGED <<api_key, process, exercises>>

\* the caller takes the result; the future is gone
Drop(i) ==
    /\ calls[i].pc = "Returned"
    /\ calls' = [calls EXCEPT ![i] = IdleCall]
    /\ UNCHANGED <<api_key, process, exercises>>

(***************************************************************************)
(* main.rs: the locals of main.  env is WEATHER_API_KEY as the process     *)
(* finds it once the .env file is loaded; exit_code is empty while the     *)
(* process runs.  Colours and the emoji of the first line are left out.    *)
(***************************************************************************)
Unset == [set |-> FALSE]

SetTo(value) == [set |-> TRUE, value |-> value]

MainLocals(pc, env, city, units) ==
    [pc |-> pc, env |-> env, city |-> city, units |-> units, client |-> FALSE]

\* no function of CP_with_rust is called
NotCalled == [tag |-> "NotCalled"]

NoKid == csv_row = "" /\ kid = NotCalled

NoDeeds == good_deeds = <<0, 0>> /\ bad_deeds = <<0, 0>> /\ nice = NotCalled

NoWish == s1 = "" /\ s2 = "" /\ wish = NotCalled

NoLocations == locations = <<>> /\ best = NotCalled /\ rest = <<>> /\ found = NotCalled

NoExercise == NoKid /\ NoDeeds /\ NoWish /\ NoLocations

\* fetch_weather used as a library: no main is running
NoMain == MainLocals("none", Unset, "", "")

(***************************************************************************)
(* Spec: the caller awaits each call before it makes the next one, as      *)
(* main.rs:45 does.                                                        *)
(***************************************************************************)
\* client.rs:11-16  WeatherClient::new(api_key)
Init ==
    /\ api_key \in ApiKeys
    /\ calls = [i \in CallIds |-> IdleCall]
    /\ main = NoMain
    /\ stdout = <<>>
    /\ stderr = <<>>
    /\ exit_code = <<>>
    /\ NoExercise

Fetch(i) ==
    /\ \A j \in CallIds \ {i} : calls[j].pc = "idle"
    /\ \E city \in Cities, units \in UnitStrings : Begin(i, city, units)

Fail(i) == \E cause \in TransportCauses : SendFails(i, cause)

Respond(i) == \E response \in Responses : ResponseArrives(i, response)

Next ==
    \E i \in CallIds :
        \/ Fetch(i)
        \/ SendRequest(i)
        \/ Fail(i)
        \/ Respond(i)
        \/ TextDone(i)
        \/ JsonDone(i)
        \/ Drop(i)

Spec == Init /\ [][Next]_vars

(***************************************************************************)
(* SpecConc: several calls on the same client at once, in any              *)
(* interleaving of their await points.                                     *)
(***************************************************************************)
ConcFetch(i) ==
    \E city \in ConcCities, units \in ConcUnitStrings : Begin(i, city, units)

ConcFail(i) == \E cause \in ConcCauses : SendFails(i, cause)

ConcRespond(i) == \E response \in ConcResponses : ResponseArrives(i, response)

NextConc ==
    \E i \in CallIds :
        \/ ConcFetch(i)
        \/ SendRequest(i)
        \/ ConcFail(i)
        \/ ConcRespond(i)
        \/ TextDone(i)
        \/ JsonDone(i)
        \/ Drop(i)

SpecConc == Init /\ [][NextConc]_vars

(***************************************************************************)
(* SpecCli: one run of the weather program, main.rs.  The client is built  *)
(* from the environment and serves the single call main makes.             *)
(***************************************************************************)
\* error.rs:8-18  the #[error] texts
Display(err) ==
    CASE err.variant = "ApiError" -> "API request failed: " \o err.msg
      [] err.variant = "ParseError" -> "Failed to parse response: " \o err.source
      [] err.variant = "NetworkError" -> "Network error: " \o err.source
      [] err.variant = "CityNotFound" -> "City not found: " \o err.msg

\* f64::to_string of a value written in tenths
FloatText(n) ==
    IF n % 10 = 0 THEN ToString(n \div 10)
    ELSE ToString(n \div 10) \o "." \o ToString(n % 10)

\* the labels chosen without regard to case
UnitLabelsAnyCase(units) ==
    IF units \in {"imperial", "Imperial", "IMPERIAL"}
    THEN <<"°F", "mph">> ELSE <<"°C", "km/h">>

\* main.rs:49-53
UnitLabels(units) ==
    IF units = "imperial" THEN <<"°F", "mph">> ELSE <<"°C", "km/h">>

\* main.rs:55-62
ReportLines(city, units, weather) ==
    LET labels == UnitLabels(units)
    IN  <<"", "Weather Report",
          "City: " \o city,
          "Temperature: " \o FloatText(weather.temperature) \o labels[1],
          "Feels like: " \o FloatText(weather.feels_like) \o labels[1],
          "Humidity: " \o ToString(weather.humidity) \o "%",
          "Conditions: " \o weather.description,
          "Wind speed: " \o FloatText(weather.wind_speed) \o " " \o labels[2],
          "Source: " \o weather.source>>

Environments == {Unset} \cup {SetTo(key) : key \in ApiKeys}

\* main.rs:31-36  the process starts; no client exists yet
InitCli ==
    /\ api_key = ""
    /\ calls = [i \in CallIds |-> IdleCall]
    /\ \E env \in Environments, city \in Cities, units \in UnitStrings :
          main = MainLocals("start", env, city, units)
    /\ stdout = <<>>
    /\ stderr = <<>>
    /\ exit_code = <<>>
    /\ NoExercise

\* main.rs:39-40  expect on a variable that is not set: the process panics
KeyMissing ==
    /\ main.pc = "start"
    /\ ~main.env.set
    /\ main' = [main EXCEPT !.pc = "exited"]
    /\ stderr' = Append(stderr, "WEATHER_API_KEY must be set in .env file: NotPresent")
    /\ exit_code' = <<101>>
    /\ UNCHANGED <<api_key, calls, stdout, exercises>>

\* main.rs:39-40
KeyFound ==
    /\ main.pc = "start"
    /\ main.env.set
    /\ main' = [main EXCEPT !.pc = "announce"]
    /\ UNCHANGED <<api_key, calls, stdout, stderr, exit_code, exercises>>

\* main.rs:42
Announce ==
    /\ main.pc = "announce"
    /\ stdout' = Append(stdout, "Fetching weather for " \o main.city \o "...")
    /\ main' = [main EXCEPT !.pc = "new"]
    /\ UNCHANGED <<api_key, calls, stderr, exit_code, exercises>>

\* an empty key replaced by a built-in one
NewClientDefaultKey ==
    /\ main.pc = "new"
    /\ api_key' = IF main.env.value = "" THEN "KEY" ELSE main.env.value
    /\ main' = [main EXCEPT !.pc = "fetch", !.client = TRUE]
    /\ UNCHANGED <<calls, stdout, stderr, exit_code, exercises>>

\* main.rs:45 and client.rs:11-16
NewClient ==
    /\ main.pc = "new"
    /\ api_key' = main.env.value
    /\ main' = [main EXCEPT !.pc = "fetch", !.client = TRUE]
    /\ UNCHANGED <<calls, stdout, stderr, exit_code, exercises>>

\* main.rs:46  client.fetch_weather(&cli.city, &cli.units)
CallFetch ==
    /\ main.pc = "fetch"
    /\ Begin(1, main.city, main.units)

\* the error swallowed: an empty report and a success status
ReportErrorSwallowed ==
    /\ main.pc = "fetch"
    /\ calls[1].pc = "Returned"
    /\ calls[1].result.tag = "Err"
    /\ stdout' = stdout \o <<"", "Weather Report", "City: " \o main.city>>
    /\ exit_code' = <<0>>
    /\ main' = [main EXCEPT !.pc = "exited"]
    /\ UNCHANGED <<api_key, calls, stderr, exercises>>

\* main.rs:46  .await? on an error: main returns it, the runtime reports it
ReportError ==
    /\ main.pc = "fetch"
    /\ calls[1].pc = "Returned"
    /\ calls[1].result.tag = "Err"
    /\ stderr' = Append(stderr, "Error: " \o Display(calls[1].result.err))
    /\ exit_code' = <<1>>
    /\ main' = [main EXCEPT !.pc = "exited"]
    /\ UNCHANGED <<api_key, calls, stdout, exercises>>

\* main.rs:49-64
PrintReport ==
    /\ main.pc = "fetch"
    /\ calls[1].pc = "Returned"
    /\ calls[1].result.tag = "Ok"
    /\ stdout' = stdout \o ReportLines(main.city, main.units, calls[1].result.data)
    /\ exit_code' = <<0>>
    /\ main' = [main EXCEPT !.pc = "exited"]
    /\ UNCHANGED <<api_key, calls, stderr, exercises>>

NextCli ==
    \/ KeyMissing
    \/ KeyFound
    \/ Announce
    \/ NewClient
    \/ CallFetch
    \/ SendRequest(1)
    \/ Fail(1)
    \/ Respond(1)
    \/ TextDone(1)
    \/ JsonDone(1)
    \/ ReportError
    \/ PrintReport

SpecCli == InitCli /\ [][NextCli]_vars

(***************************************************************************)
(* CP_with_rust/cp10.rs.  A u32 is written as two limbs <<hi, lo>> of 16    *)
(* bits, its value being hi * 65536 + lo.  An f32 that is not negative is  *)
(* written [m, e], its value being m * 2^e with 2^23 <= m < 2^24, or Zero. *)
(* Every operation rounds to the nearest f32, ties to the even one.        *)
(***************************************************************************)
Limb == 65536

Precision == 24

U32(n) == <<n \div Limb, n % Limb>>

U32Max == <<Limb - 1, Limb - 1>>

\* a >= k * b for two u32 and a small k, in exact arithmetic
AtLeastTimes(a, k, b) ==
    LET lo == k * b[2]
        hi == k * b[1] + lo \div Limb
    IN  a[1] > hi \/ (a[1] = hi /\ a[2] >= lo % Limb)

RECURSIVE BitLen(_)
BitLen(n) == IF n = 0 THEN 0 ELSE 1 + BitLen(n \div 2)

Zero == [m |-> 0, e |-> 0]

\* q + r/d rounded to the nearest integer, a tie going to the even one
Nearest(q, r, d) ==
    IF 2 * r > d \/ (2 * r = d /\ q % 2 = 1) THEN q + 1 ELSE q

Normal(m, e) ==
    IF m = 2 ^ Precision THEN [m |-> 2 ^ (Precision - 1), e |-> e + 1]
    ELSE [m |-> m, e |-> e]

\* cp10.rs:93-94  u32 as f32
AsF32(u) ==
    LET len == IF u[1] > 0 THEN 16 + BitLen(u[1]) ELSE BitLen(u[2])
        k   == len - Precision
    IN  IF len = 0 THEN Zero
        ELSE IF k <= 0
             THEN [m |-> (u[1] * Limb + u[2]) * 2 ^ (-k), e |-> k]
             ELSE Normal(Nearest(u[1] * 2 ^ (16 - k) + u[2] \div 2 ^ k,
                                 u[2] % 2 ^ k, 2 ^ k), k)

\* cp10.rs:102-103
GOOD_WEIGHT == [m |-> 2 ^ (Precision - 1), e |-> 1 - Precision]

BAD_WEIGHT == [m |-> 2 ^ (Precision - 1), e |-> 2 - Precision]

THRESHOLD == [m |-> 3 * 2 ^ (Precision - 2), e |-> -Precision]

\* cp10.rs:93-94  a product with a weight that is a power of two is exact
Weighted(a, weight) ==
    IF a = Zero THEN Zero
    ELSE [m |-> a.m, e |-> a.e + weight.e + Precision - 1]

\* cp10.rs:96  the sum of two f32, rounded
Plus(a, b) ==
    IF a = Zero THEN b
    ELSE IF b = Zero THEN a
    ELSE LET x == IF a.e >= b.e THEN a ELSE b
             y == IF a.e >= b.e THEN b ELSE a
             d == x.e - y.e
             q == x.m + y.m \div 2 ^ d
             r == y.m % 2 ^ d
         IN  IF d > Precision + 1 THEN x
             ELSE IF q < 2 ^ Precision
                  THEN Normal(Nearest(q, r, 2 ^ d), x.e)
                  ELSE Normal(Nearest(q \div 2, (q % 2) * 2 ^ d + r, 2 ^ (d + 1)),
                              x.e + 1)

\* k more bits of the quotient q with remainder r of a division by d
RECURSIVE LongDivision(_, _, _, _)
LongDivision(q, r, d, k) ==
    IF k = 0 THEN [q |-> q, r |-> r]
    ELSE IF 2 * r >= d THEN LongDivision(2 * q + 1, 2 * r - d, d, k - 1)
         ELSE LongDivision(2 * q, 2 * r, d, k - 1)

\* cp10.rs:96  the quotient of two f32, rounded
Over(a, b) ==
    IF a = Zero THEN Zero
    ELSE LET k == IF a.m >= b.m THEN Precision - 1 ELSE Precision
             w == LongDivision(a.m \div b.m, a.m % b.m, b.m, k)
         IN  Normal(Nearest(w.q, w.r, b.m), a.e - b.e - k)

\* cp10.rs:98  >= of two f32
AtLeast(a, b) ==
    IF b = Zero THEN TRUE
    ELSE IF a = Zero THEN FALSE
    ELSE a.e > b.e \/ (a.e = b.e /\ a.m >= b.m)

\* cp10.rs:88-99  Kid::is_nice
is_nice(good, bad) ==
    IF good = <<0, 0>> /\ bad = <<0, 0>> THEN FALSE
    ELSE LET good_deeds_f == Weighted(AsF32(good), GOOD_WEIGHT)
             bad_deeds_f  == Weighted(AsF32(bad), BAD_WEIGHT)
             ratio        == Over(good_deeds_f, Plus(good_deeds_f, bad_deeds_f))
         IN  AtLeast(ratio, THRESHOLD)

\* cp10.rs:105-109
Nice(good) == [tag |-> "Nice", good_deeds |-> good]

Naughty == [tag |-> "Naughty"]

\* cp10.rs:39-42
Kid(name, niceness) == [name |-> name, niceness |-> niceness]

\* cp10.rs:5-13
ParseErrors ==
    {"NoName", "NoGoodDeeds", "NoBadDeeds", "InvalidGoodDeeds", "InvalidBadDeeds"}

\* str::trim takes the white space off both ends
WhiteSpace == {" ", "\t", "\n"}

Char(s, i) == SubSeq(s, i, i)

Blank(s) == \A i \in 1..Len(s) : Char(s, i) \in WhiteSpace

\* the first and the last position that trim keeps
TrimStart(s) ==
    IF Blank(s) THEN Len(s) + 1
    ELSE CHOOSE i \in 1..Len(s) :
            Char(s, i) \notin WhiteSpace /\ Blank(SubSeq(s, 1, i - 1))

TrimEnd(s) ==
    IF Blank(s) THEN Len(s)
    ELSE CHOOSE i \in 1..Len(s) :
            Char(s, i) \notin WhiteSpace /\ Blank(SubSeq(s, i + 1, Len(s)))

Trim(s) == SubSeq(s, TrimStart(s), TrimEnd(s))

\* cp10.rs:63  str::split
RECURSIVE Split(_, _)
Split(s, sep) ==
    IF \A i \in 1..Len(s) : Char(s, i) # sep THEN <<s>>
    ELSE LET at == CHOOSE i \in 1..Len(s) :
                      Char(s, i) = sep /\ \A j \in 1..(i - 1) : Char(s, j) # sep
         IN  <<SubSeq(s, 1, at - 1)>> \o Split(SubSeq(s, at + 1, Len(s)), sep)

Digits == "0123456789"

IsDigit(c) == \E d \in 0..9 : Char(Digits, d + 1) = c

DigitOf(c) == CHOOSE d \in 0..9 : Char(Digits, d + 1) = c

Parsed(value) == [ok |-> TRUE, value |-> value]

ParseIntError(kind) == [ok |-> FALSE, kind |-> kind]

\* the digits read one by one, each step checked against the u32 range
RECURSIVE ParseDigits(_, _)
ParseDigits(s, acc) ==
    IF s = "" THEN Parsed(acc)
    ELSE IF ~IsDigit(Char(s, 1)) THEN ParseIntError("InvalidDigit")
    ELSE LET lo == acc[2] * 10 + DigitOf(Char(s, 1))
             hi == acc[1] * 10 + lo \div Limb
         IN  IF hi >= Limb THEN ParseIntError("PosOverflow")
             ELSE ParseDigits(SubSeq(s, 2, Len(s)), <<hi, lo % Limb>>)

\* a field read with its white space taken off first
parse_u32_trimmed(s) ==
    LET t == Trim(s)
    IN  IF t = "" THEN ParseIntError("Empty")
        ELSE IF t \in {"+", "-"} THEN ParseIntError("InvalidDigit")
        ELSE IF Char(t, 1) = "+" THEN ParseDigits(SubSeq(t, 2, Len(t)), <<0, 0>>)
        ELSE ParseDigits(t, <<0, 0>>)

\* cp10.rs:76, 83  str::parse::<u32>: an optional + and decimal digits
parse_u32(s) ==
    IF s = "" THEN ParseIntError("Empty")
    ELSE IF s \in {"+", "-"} THEN ParseIntError("InvalidDigit")
    ELSE IF Char(s, 1) = "+" THEN ParseDigits(SubSeq(s, 2, Len(s)), <<0, 0>>)
    ELSE ParseDigits(s, <<0, 0>>)

\* the name kept without the white space around it
new_trimmed(name, good, bad) ==
    Kid(Trim(name), IF is_nice(good, bad) THEN Nice(good) ELSE Naughty)

\* cp10.rs:45-53  Kid::new
new(name, good, bad) ==
    Kid(name, IF is_nice(good, bad) THEN Nice(good) ELSE Naughty)

\* cp10.rs:55-86  Kid::parse_row
parse_row(row) ==
    IF row = "" THEN Err("NoName")
    ELSE
    LET fields == Split(row, ",")
    IN  IF Len(fields) < 1 THEN Err("NoName")
        ELSE IF Trim(fields[1]) = "" THEN Err("NoName")
        ELSE IF Len(fields) < 2 THEN Err("NoGoodDeeds")
        ELSE IF Trim(fields[2]) = "" THEN Err("NoGoodDeeds")
        ELSE IF ~parse_u32(fields[2]).ok THEN Err("InvalidGoodDeeds")
        ELSE IF Len(fields) < 3 THEN Err("NoBadDeeds")
        ELSE IF Trim(fields[3]) = "" THEN Err("NoBadDeeds")
        ELSE IF ~parse_u32(fields[3]).ok THEN Err("InvalidBadDeeds")
        ELSE Ok(new(fields[1], parse_u32(fields[2]).value,
                    parse_u32(fields[3]).value))

(***************************************************************************)
(* SpecKid: Kid::parse_row called on one row.                              *)
(***************************************************************************)
Names == {"", " ", "alice", " bob ", "0"}

DeedTexts ==
    {"", " ", "0", "5", "+5", "-5", " 5", "5 ", "x", "+", "4294967295",
     "4294967296", "99999999999", "6291461", "1048577"}

Rows ==
    {""} \cup Names
         \cup {n \o "," \o g : n \in Names, g \in DeedTexts}
         \cup {n \o "," \o g \o "," \o b :
                  n \in Names, g \in DeedTexts, b \in DeedTexts}
         \cup {n \o "," \o g \o "," \o b \o ",extra" :
                  n \in Names \ {""}, g \in {"5", "x"}, b \in {"0", "", "-5"}}

InitKid ==
    /\ api_key = ""
    /\ calls = [i \in CallIds |-> IdleCall]
    /\ main = NoMain
    /\ stdout = <<>>
    /\ stderr = <<>>
    /\ exit_code = <<>>
    /\ csv_row \in Rows
    /\ kid = NotCalled
    /\ NoDeeds /\ NoWish /\ NoLocations

\* cp10.rs:55-86
ParseRow ==
    /\ kid = NotCalled
    /\ kid' = parse_row(csv_row)
    /\ UNCHANGED <<api_key, calls, process, csv_row, good_deeds, bad_deeds, nice,
                   cp4, cp7>>

NextKid == ParseRow

SpecKid == InitKid /\ [][NextKid]_vars

(***************************************************************************)
(* SpecNice: Kid::is_nice called on two counts.                            *)
(***************************************************************************)
DeedCounts ==
    {U32(0), U32(1), U32(5), U32(6), U32(7), U32(12), U32(6291461),
     U32(6291462), U32(1048577), U32(1048576), U32Max, <<10922, 43690>>}

InitNice ==
    /\ api_key = ""
    /\ calls = [i \in CallIds |-> IdleCall]
    /\ main = NoMain
    /\ stdout = <<>>
    /\ stderr = <<>>
    /\ exit_code = <<>>
    /\ good_deeds \in DeedCounts
    /\ bad_deeds \in DeedCounts
    /\ nice = NotCalled
    /\ NoKid /\ NoWish /\ NoLocations

\* cp10.rs:88-99
IsNice ==
    /\ nice = NotCalled
    /\ nice' = [tag |-> "Returned", value |-> is_nice(good_deeds, bad_deeds)]
    /\ UNCHANGED <<api_key, calls, process, csv_row, kid, good_deeds, bad_deeds,
                   cp4, cp7>>

NextNice == IsNice

SpecNice == InitNice /\ [][NextNice]_vars

(***************************************************************************)
(* CP_with_rust/cp3.rs and cp4.rs.  A &str into one of the two arguments   *)
(* is written [of, from, to]: the characters from..to of argument `of`.    *)
(* Nothing is copied.                                                      *)
(***************************************************************************)
Some(value) == [tag |-> "Some", value |-> value]

None == [tag |-> "None"]

Slice(of, from, to) == [of |-> of, from |-> from, to |-> to]

\* str::trim as a slice of the argument
Trimmed(of, s) == Slice(of, TrimStart(s), TrimEnd(s))

\* chars().count() of a slice
CharCount(slice) == slice.to - slice.from + 1

\* the bytes of one character in UTF-8
Utf8Width(c) == IF c = "é" THEN 2 ELSE 1

RECURSIVE ByteLen(_)
ByteLen(s) == IF s = "" THEN 0 ELSE Utf8Width(Char(s, 1)) + ByteLen(SubSeq(s, 2, Len(s)))

\* the lengths compared in bytes, as len() gives them
longer_wish_bytes(a, b) ==
    LET s1_trimmed == Trimmed(1, a)
        s2_trimmed == Trimmed(2, b)
    IN  IF ByteLen(Trim(a)) > ByteLen(Trim(b)) THEN Some(s1_trimmed)
        ELSE IF ByteLen(Trim(b)) > ByteLen(Trim(a)) THEN Some(s2_trimmed)
        ELSE None

\* cp3.rs:3-14, cp4.rs:22-33
longer_wish(a, b) ==
    LET s1_trimmed == Trimmed(1, a)
        s2_trimmed == Trimmed(2, b)
    IN  IF CharCount(s1_trimmed) > CharCount(s2_trimmed) THEN Some(s1_trimmed)
        ELSE IF CharCount(s2_trimmed) > CharCount(s1_trimmed) THEN Some(s2_trimmed)
        ELSE None

\* the characters a slice refers to
SliceText(slice, a, b) ==
    SubSeq(IF slice.of = 1 THEN a ELSE b, slice.from, slice.to)

(***************************************************************************)
(* SpecWish: main of cp4.rs from the point where both lines are read.      *)
(***************************************************************************)
Wishes ==
    {"", " ", "\n", "a", "abc", " abc\n", "ab cd\n", "éé", "éé\n", "\tsled ", "sled\n"}

\* cp4.rs:4-14  both prompts are written and both lines are read; stdout
\* holds the texts written, one element for each print
InitWish ==
    /\ api_key = ""
    /\ calls = [i \in CallIds |-> IdleCall]
    /\ main = NoMain
    /\ stdout = <<"Enter first string: ", "Enter second string: ">>
    /\ stderr = <<>>
    /\ exit_code = <<>>
    /\ s1 \in Wishes
    /\ s2 \in Wishes
    /\ wish = NotCalled
    /\ NoKid /\ NoDeeds /\ NoLocations

\* cp4.rs:16  the call
LongerWish ==
    /\ wish = NotCalled
    /\ Len(stdout) = 2
    /\ wish' = longer_wish(s1, s2)
    /\ UNCHANGED <<api_key, calls, process, cp10, s1, s2, cp7>>

\* cp4.rs:17-18  the arms of the match
PrintLonger ==
    /\ wish # NotCalled
    /\ Len(stdout) = 2
    /\ stdout' = Append(stdout,
                    IF wish.tag = "Some"
                    THEN "Longer string: '" \o Trim(SliceText(wish.value, s1, s2))
                            \o "'\n"
                    ELSE "Strings are equal length or both empty\n")
    /\ UNCHANGED <<api_key, calls, main, stderr, exit_code, exercises>>

NextWish == LongerWish \/ PrintLonger

SpecWish == InitWish /\ [][NextWish]_vars

(***************************************************************************)
(* CP_with_rust/cp6.rs and cp7.rs.  An f64 is written [nan, num, den]:     *)
(* not a number, or the number num / den with den > 0.  The areas and      *)
(* snowball counts of the model are small integers, for which two f64      *)
(* quotients compare as the exact quotients do.                            *)
(***************************************************************************)
F64(n) == [nan |-> FALSE, num |-> n, den |-> 1]

NaN == [nan |-> TRUE, num |-> 0, den |-> 1]

\* == and > of two f64: both are false when either side is not a number
Equal(a, b) == ~a.nan /\ ~b.nan /\ a.num * b.den = b.num * a.den

Greater(a, b) == ~a.nan /\ ~b.nan /\ a.num * b.den > b.num * a.den

\* / of an integer by an f64 that is not 0.0
Quotient(n, a) ==
    IF a.nan THEN NaN
    ELSE IF a.num < 0 THEN [nan |-> FALSE, num |-> -n * a.den, den |-> -a.num]
    ELSE [nan |-> FALSE, num |-> n * a.den, den |-> a.num]

\* cp7.rs:76-82, cp6.rs:70-76
Location(x, area, snow) ==
    [x |-> F64(x), y |-> F64(0), z |-> F64(0), area |-> area, snow |-> snow]

\* cp7.rs:95-101, cp6.rs:89-95  Location::density
density(location) ==
    IF Equal(location.area, F64(0)) THEN F64(0)
    ELSE Quotient(location.snow, location.area)

\* a vector index: outside the vector it panics
Panic == [tag |-> "Panic"]

Index(vec, i) == IF i < Len(vec) THEN vec[i + 1] ELSE Panic

(***************************************************************************)
(* SpecSnow: find_best_location called on one vector.                      *)
(***************************************************************************)
MaxLocations == 3

SomeLocations ==
    {Location(1, F64(2), 4), Location(2, F64(1), 2), Location(3, F64(0), 5),
     Location(4, F64(4), 2), Location(5, F64(-1), 3), Location(6, NaN, 1)}

RECURSIVE Vectors(_)
Vectors(n) ==
    IF n = 0 THEN {<<>>}
    ELSE Vectors(n - 1)
            \cup {Append(v, l) : v \in {w \in Vectors(n - 1) : Len(w) = n - 1},
                                 l \in SomeLocations}

InitSnow ==
    /\ api_key = ""
    /\ calls = [i \in CallIds |-> IdleCall]
    /\ main = NoMain
    /\ stdout = <<>>
    /\ stderr = <<>>
    /\ exit_code = <<>>
    /\ locations \in Vectors(MaxLocations)
    /\ best = NotCalled
    /\ rest = <<>>
    /\ found = NotCalled
    /\ NoKid /\ NoDeeds /\ NoWish

\* locations[0] taken whether or not there is one
EnterUnchecked ==
    /\ best = NotCalled /\ found = NotCalled
    /\ IF Index(locations, 0) = Panic
       THEN found' = Panic /\ UNCHANGED <<best, rest>>
       ELSE /\ best' = Index(locations, 0)
            /\ rest' = SubSeq(locations, 2, Len(locations))
            /\ UNCHANGED found
    /\ UNCHANGED <<api_key, calls, process, cp10, cp4, locations>>

\* cp7.rs:110-120, cp6.rs:99-105  the test for an empty vector, then
\* locations[0] and the slice locations[1..]
Enter ==
    /\ best = NotCalled /\ found = NotCalled
    /\ IF Len(locations) = 0
       THEN found' = Err("No locations provided") /\ UNCHANGED <<best, rest>>
       ELSE IF Index(locations, 0) = Panic
       THEN found' = Panic /\ UNCHANGED <<best, rest>>
       ELSE /\ best' = Index(locations, 0)
            /\ rest' = SubSeq(locations, 2, Len(locations))
            /\ UNCHANGED found
    /\ UNCHANGED <<api_key, calls, process, cp10, cp4, locations>>

\* a location as dense as the best one takes its place
NextLocationOrEqual ==
    /\ best # NotCalled /\ found = NotCalled /\ rest # <<>>
    /\ best' = IF \/ Greater(density(Head(rest)), density(best))
                  \/ Equal(density(Head(rest)), density(best))
               THEN Head(rest) ELSE best
    /\ rest' = Tail(rest)
    /\ UNCHANGED <<api_key, calls, process, cp10, cp4, locations, found>>

\* cp7.rs:120-126, cp6.rs:105-109  one turn of the loop
NextLocation ==
    /\ best # NotCalled /\ found = NotCalled /\ rest # <<>>
    /\ best' = IF Greater(density(Head(rest)), density(best))
               THEN Head(rest) ELSE best
    /\ rest' = Tail(rest)
    /\ UNCHANGED <<api_key, calls, process, cp10, cp4, locations, found>>

\* cp7.rs:128, cp6.rs:111
ReturnBest ==
    /\ best # NotCalled /\ found = NotCalled /\ rest = <<>>
    /\ found' = Ok(best)
    /\ UNCHANGED <<api_key, calls, process, cp10, cp4, locations, best, rest>>

NextSnow == Enter \/ NextLocation \/ ReturnBest

SpecSnow == InitSnow /\ [][NextSnow]_vars

(***************************************************************************)
(* What the claims speak of.                                               *)
(***************************************************************************)
Returned(i) == calls[i].pc = "Returned"

GotResponse(i) == calls[i].http_response.kind = "response"

NonSuccess(i) == GotResponse(i) /\ ~IsSuccess(calls[i].http_response.status)

Success(i) == GotResponse(i) /\ IsSuccess(calls[i].http_response.status)

IsErr(i, variant) ==
    /\ calls[i].result.tag = "Err"
    /\ calls[i].result.err.variant = variant

\* What a caller reads back out of the message of an ApiError: the status
\* up to the first ": " after the fixed words, the body after it.
MessageWords == "API returned status "

RECURSIVE SeparatorFrom(_, _)
SeparatorFrom(msg, k) ==
    IF k + 1 > Len(msg) THEN 0
    ELSE IF SubSeq(msg, k, k + 1) = ": " THEN k
    ELSE SeparatorFrom(msg, k + 1)

Carried(msg) ==
    LET k == SeparatorFrom(msg, Len(MessageWords) + 1)
    IN  [words  |-> SubSeq(msg, 1, Len(MessageWords)),
         status |-> IF k = 0 THEN "" ELSE SubSeq(msg, Len(MessageWords) + 1, k - 1),
         code   |-> SubSeq(msg, Len(MessageWords) + 1, Len(MessageWords) + 3),
         body   |-> IF k = 0 \/ k + 2 > Len(msg) THEN ""
                    ELSE SubSeq(msg, k + 2, Len(msg))]

CarriesStatusAndBody(i) ==
    LET got == Carried(calls[i].result.err.msg)
    IN  /\ got.words = MessageWords
        /\ got.status = StatusText(calls[i].http_response.status)
        /\ got.code = ToString(calls[i].http_response.status)
        /\ got.body = calls[i].http_response.body.text

(***************************************************************************)
(* C1, as stated: every response with a non-success status, whatever its   *)
(* body, gives the HTTP-status error (ApiError) with that status and that  *)
(* body text, never a decode error and never a weather reading.            *)
(***************************************************************************)
C1_AnyBodyGivesApiError ==
    \A i \in CallIds :
        Returned(i) /\ NonSuccess(i) =>
            /\ IsErr(i, "ApiError")
            /\ calls[i].http_response.body.readable => CarriesStatusAndBody(i)

(***************************************************************************)
(* C1, amended: a response with a non-success status whose body is read    *)
(* to its end gives ApiError whose message carries exactly that status and *)
(* that body text; when reading the body fails the call returns            *)
(* NetworkError with the cause of that failure.  In both cases no JSON     *)
(* decoding is started and no weather reading is returned.                 *)
(***************************************************************************)
C1_NonSuccessStatus ==
    \A i \in CallIds :
        Returned(i) /\ NonSuccess(i) =>
            /\ calls[i].result.tag = "Err"
            /\ ~calls[i].decoding
            /\ ~IsErr(i, "ParseError")
            /\ IF calls[i].http_response.body.readable
               THEN IsErr(i, "ApiError") /\ CarriesStatusAndBody(i)
               ELSE calls[i].result
                        = Err(NetworkError(calls[i].http_response.body.cause))

C1_Witness ==
    \E i \in CallIds :
        /\ Returned(i) /\ NonSuccess(i)
        /\ calls[i].http_response.status = 404
        /\ calls[i].http_response.body.readable
        /\ calls[i].http_response.body.text = "<html>Bad Gateway: 502</html>"
        /\ IsErr(i, "ApiError")

(***************************************************************************)
(* C2: a success status with a body that is no JSON, or that lacks a       *)
(* required field, gives the parse-failure variant of WeatherError         *)
(* (ParseError), and no WeatherData.                                       *)
(***************************************************************************)
Undecodable(body) ==
    /\ body.readable
    /\ \/ ~body.valid
       \/ MissingPaths(body.json) # {}

C2_DecodeFailureIsParseError ==
    \A i \in CallIds :
        Returned(i) /\ Success(i) /\ Undecodable(calls[i].http_response.body) =>
            IsErr(i, "ParseError")

(***************************************************************************)
(* C3: when the GET fails in transport the call returns NetworkError       *)
(* around the cause, and has neither looked at a status nor started a      *)
(* decode.                                                                 *)
(***************************************************************************)
C3_TransportFailure ==
    \A i \in CallIds :
        Returned(i) /\ calls[i].http_response.kind = "failed" =>
            /\ calls[i].result = Err(NetworkError(calls[i].http_response.cause))
            /\ ~calls[i].classified
            /\ ~calls[i].decoding
            /\ calls[i].path = <<"Built", "Sent", "Returned">>

C3_Witness ==
    \E i \in CallIds :
        /\ Returned(i)
        /\ calls[i].http_response = Failed("operation timed out")
        /\ IsErr(i, "NetworkError")

(***************************************************************************)
(* C4: the three failures come back as three error kinds that differ       *)
(* pairwise: two calls that return the same variant of WeatherError have   *)
(* failed in the same way.                                                 *)
(***************************************************************************)
FailureOf(i) ==
    IF calls[i].http_response.kind = "failed" THEN "transport"
    ELSE IF ~calls[i].http_response.body.readable THEN "transport"
    ELSE IF ~IsSuccess(calls[i].http_response.status) THEN "http status"
    ELSE "decode"

C4_KindTellsFailure ==
    \A i, j \in CallIds :
        /\ Returned(i) /\ calls[i].result.tag = "Err"
        /\ Returned(j) /\ calls[j].result.tag = "Err"
        /\ calls[i].result.err.variant = calls[j].result.err.variant
        => FailureOf(i) = FailureOf(j)

(***************************************************************************)
(* C5: a reading for units "imperial" has temp_f, feelslike_f and wind_mph *)
(* of the provider unchanged, one for "metric" has temp_c, feelslike_c and *)
(* wind_kph unchanged; the three values are never a mix of the families.   *)
(***************************************************************************)
Selected(i) ==
    <<calls[i].result.data.temperature, calls[i].result.data.feels_like,
      calls[i].result.data.wind_speed>>

Fahrenheit(i) ==
    LET current == calls[i].http_response.body.json.current
    IN  <<current.temp_f, current.feelslike_f, current.wind_mph>>

Celsius(i) ==
    LET current == calls[i].http_response.body.json.current
    IN  <<current.temp_c, current.feelslike_c, current.wind_kph>>

C5_UnitsSelectFields ==
    \A i \in CallIds :
        Returned(i) /\ calls[i].result.tag = "Ok" =>
            /\ calls[i].units = "imperial" => Selected(i) = Fahrenheit(i)
            /\ calls[i].units = "metric" => Selected(i) = Celsius(i)
            /\ Selected(i) \in {Fahrenheit(i), Celsius(i)}

C5_Witness ==
    \E i \in CallIds :
        /\ Returned(i) /\ calls[i].result.tag = "Ok"
        /\ calls[i].units = "imperial"
        /\ calls[i].http_response.body.json = OddDoc
        /\ Selected(i) = <<700, 999, 44>>

(***************************************************************************)
(* C6: every units string other than "imperial" behaves as "metric": the   *)
(* call fails only if the response itself fails or does not decode, and    *)
(* its reading is the metric reading of the response.                      *)
(***************************************************************************)
C6_OtherUnitsAreMetric ==
    \A i \in CallIds :
        Returned(i) /\ calls[i].units # "imperial" =>
            /\ calls[i].result.tag = "Ok"
                  <=> (Success(i) /\ Json(calls[i].http_response.body).ok)
            /\ calls[i].result.tag = "Ok" =>
                  /\ Selected(i) = Celsius(i)
                  /\ calls[i].result.data
                        = WeatherData(calls[i].http_response.body.json, "metric")

C6_Witness ==
    \E i \in CallIds :
        /\ Returned(i) /\ calls[i].result.tag = "Ok"
        /\ calls[i].units = "Imperial"
        /\ calls[i].http_response.body.json = OddDoc
        /\ Selected(i) = <<200, 0, 33>>

(***************************************************************************)
(* C7: every reading returned for a success body that decodes has a        *)
(* humidity within 0..100 and a description that is not empty.             *)
(***************************************************************************)
C7_HumidityAndDescription ==
    \A i \in CallIds :
        Returned(i) /\ calls[i].result.tag = "Ok" =>
            /\ calls[i].result.data.humidity \in 0..100
            /\ calls[i].result.data.description # ""

(***************************************************************************)
(* C8: a call goes Built, then Sent, then into exactly one of Succeeded,   *)
(* HttpError, TransportError, DecodeError; it is in none of these before   *)
(* Sent, it stays in the one it reached until the caller has taken the     *)
(* result, and it enters Sent once.                                        *)
(***************************************************************************)
Terminals == {"Succeeded", "HttpError", "TransportError", "DecodeError"}

StateOf(i) ==
    CASE calls[i].pc = "idle" -> "None"
      [] calls[i].pc = "Built" -> "Built"
      [] calls[i].pc \in {"Sent", "AwaitText", "AwaitJson"} -> "Sent"
      [] calls[i].pc = "Returned" /\ calls[i].line = 76 -> "Succeeded"
      [] calls[i].pc = "Returned" /\ calls[i].line = 50 -> "HttpError"
      [] calls[i].pc = "Returned" /\ calls[i].line \in {44, 49} -> "TransportError"
      [] calls[i].pc = "Returned" /\ calls[i].line = 59 -> "DecodeError"
      [] OTHER -> "Unknown"

Times(path, pc) == Cardinality({k \in 1..Len(path) : path[k] = pc})

C8_State(i) ==
    /\ StateOf(i) \in {"None", "Built", "Sent"} \cup Terminals
    /\ StateOf(i) \in {"None", "Built", "Sent"} <=> calls[i].result = Pending
    /\ StateOf(i) = "Succeeded" <=> calls[i].result.tag = "Ok"
    /\ Times(calls[i].path, "Built") <= 1
    /\ Times(calls[i].path, "Sent") <= 1
    /\ StateOf(i) \in Terminals =>
          /\ SubSeq(calls[i].path, 1, 2) = <<"Built", "Sent">>
          /\ Times(calls[i].path, "Returned") = 1

C8_Step(i) ==
    /\ StateOf(i) = "None" => StateOf(i)' \in {"None", "Built"}
    /\ StateOf(i) = "Built" => StateOf(i)' \in {"Built", "Sent"}
    /\ StateOf(i) = "Sent" => StateOf(i)' \in {"Sent"} \cup Terminals
    /\ StateOf(i) \in Terminals =>
          \/ calls'[i] = calls[i]
          \/ calls'[i] = IdleCall

C8_StateMachine ==
    /\ [](\A i \in CallIds : C8_State(i))
    /\ [][\A i \in CallIds : C8_Step(i)]_vars

C8_Witness ==
    \E i \in CallIds :
        /\ StateOf(i) = "DecodeError"
        /\ calls[i].path = <<"Built", "Sent", "AwaitJson", "Returned">>
        /\ calls[i].http_response.body = TextBody("")

(***************************************************************************)
(* C9: on every path, to a reading or to an error, the call has issued     *)
(* exactly one GET request; no result exists without a request.            *)
(***************************************************************************)
C9_OneRequest ==
    \A i \in CallIds :
        /\ calls[i].requests <= 1
        /\ Returned(i) => calls[i].requests = 1
        /\ calls[i].requests = 0 => calls[i].result = Pending
        /\ calls[i].result # Pending => calls[i].http_response # NoResponse

C9_Witness ==
    \E i \in CallIds :
        /\ Returned(i)
        /\ calls[i].http_response.kind = "response"
        /\ calls[i].http_response.status = 500
        /\ calls[i].requests = 1

(***************************************************************************)
(* C10: two calls on the same client with the same city and units, to      *)
(* which the provider gives the same response, return equal results.       *)
(***************************************************************************)
C10_SameInputsSameResult ==
    \A i, j \in CallIds :
        /\ Returned(i) /\ Returned(j)
        /\ calls[i].city = calls[j].city
        /\ calls[i].units = calls[j].units
        /\ calls[i].http_response = calls[j].http_response
        => calls[i].result = calls[j].result

C10_Witness ==
    \E i, j \in CallIds :
        /\ i # j
        /\ Returned(i) /\ Returned(j)
        /\ calls[i].city = calls[j].city
        /\ calls[i].units = calls[j].units
        /\ calls[i].http_response = calls[j].http_response
        /\ calls[i].result.tag = "Ok"
        /\ calls[i].result = calls[j].result

(***************************************************************************)
(* C11: in every interleaving of calls on one client each call returns     *)
(* what it returns when it runs alone with the same response, and no call  *)
(* writes the client's api_key.                                            *)
(***************************************************************************)
Alone(i) ==
    LET response == calls[i].http_response
    IN  IF response.kind = "failed" THEN Err(NetworkError(response.cause))
        ELSE IF IsSuccess(response.status)
        THEN IF Json(response.body).ok
             THEN Ok(WeatherData(Json(response.body).value, calls[i].units))
             ELSE Err(NetworkError(Json(response.body).detail))
        ELSE IF response.body.readable
             THEN Err(ApiError(ApiErrorMessage(response.status, response.body.text)))
             ELSE Err(NetworkError(response.body.cause))

C11_CallsAreIndependent ==
    /\ [](\A i \in CallIds : Returned(i) => calls[i].result = Alone(i))
    /\ [](\A i \in CallIds : calls[i].pc # "idle" =>
                                calls[i].url = Url(api_key, calls[i].city))
    /\ [][api_key' = api_key]_vars

C11_Witness ==
    \E i, j \in CallIds :
        /\ i # j
        /\ Returned(i) /\ calls[i].result.tag = "Ok"
        /\ calls[j].pc = "AwaitJson"
        /\ calls[j].http_response.body = TextBody("")

(***************************************************************************)
(* C12: a reading has the provider's current.humidity and                  *)
(* current.condition.text unchanged, and its source is "WeatherAPI.com - " *)
(* followed by location.name, ", " and location.country of the response,   *)
(* whatever city and units the caller passed.                              *)
(***************************************************************************)
C12_CopiedFieldsAndSource ==
    \A i \in CallIds :
        Returned(i) /\ calls[i].result.tag = "Ok" =>
            LET doc == calls[i].http_response.body.json
                data == calls[i].result.data
            IN  /\ data.humidity = doc.current.humidity
                /\ data.description = doc.current.condition.text
                /\ data.source = "WeatherAPI.com - " \o doc.location.name
                                    \o ", " \o doc.location.country
                /\ doc = LondonDoc => data.source = "WeatherAPI.com - London, UK"

C12_Witness ==
    \E i \in CallIds :
        /\ Returned(i) /\ calls[i].result.tag = "Ok"
        /\ calls[i].city = "London"
        /\ calls[i].units = "imperial"
        /\ calls[i].http_response.body.json = ParisDoc
        /\ calls[i].result.data.source = "WeatherAPI.com - Paris, France"
        /\ calls[i].result.data.humidity = 80
        /\ calls[i].result.data.description = "Cloudy"

(***************************************************************************)
(* C13: a call returns a WeatherData exactly when the request met no       *)
(* transport failure, the status was a success and the whole body decoded; *)
(* every other path returns an error and no WeatherData, and a WeatherData *)
(* that is returned has all its fields.                                    *)
(***************************************************************************)
WholeBodyDecodes(body) ==
    /\ body.readable
    /\ body.valid
    /\ MissingPaths(body.json) = {}
    /\ body.json.current.humidity \in 0..U8Max

C13_ReadingOnlyOnFullSuccess ==
    \A i \in CallIds :
        /\ ~Returned(i) => calls[i].result = Pending
        /\ Returned(i) =>
            /\ calls[i].result.tag \in {"Ok", "Err"}
            /\ calls[i].result.tag = "Ok"
                  <=> /\ GotResponse(i)
                      /\ IsSuccess(calls[i].http_response.status)
                      /\ WholeBodyDecodes(calls[i].http_response.body)
            /\ calls[i].result.tag = "Err" => DOMAIN calls[i].result = {"tag", "err"}
            /\ calls[i].result.tag = "Ok" =>
                  DOMAIN calls[i].result.data
                     = {"temperature", "feels_like", "humidity", "description",
                        "wind_speed", "source"}

C13_Witness ==
    \E i \in CallIds :
        /\ Returned(i)
        /\ Success(i)
        /\ calls[i].http_response.body
              = JsonBody([LondonDoc EXCEPT !.current = Without(LondonDoc.current, "wind_mph")])
        /\ calls[i].units = "metric"
        /\ calls[i].result.tag = "Err"

(***************************************************************************)
(* C14: no step of fetch_weather writes to an output stream or ends the    *)
(* process; every write and the exit are steps of main.                    *)
(***************************************************************************)
Streams == <<stdout, stderr, exit_code>>

C14_FetchOnlyReturns ==
    /\ [][calls' # calls => Streams' = Streams /\ api_key' = api_key]_vars
    /\ [][Streams' # Streams => calls' = calls /\ main'.pc # main.pc]_vars

C14_Witness ==
    /\ main.pc = "fetch"
    /\ Returned(1)
    /\ IsErr(1, "ApiError")
    /\ stdout = <<"Fetching weather for London...">>
    /\ stderr = <<>>
    /\ exit_code = <<>>

(***************************************************************************)
(* C15: when fetch_weather returns an error the program reports the error  *)
(* and ends with a non-zero status, having printed no line of the Weather  *)
(* Report; report lines are printed only after a fetch that returned a     *)
(* WeatherData.                                                            *)
(***************************************************************************)
Announced == <<"Fetching weather for " \o main.city \o "...">>

C15_ErrorEndsWithoutReport ==
    /\ main.pc = "exited" /\ Returned(1) /\ calls[1].result.tag = "Err" =>
          /\ exit_code = <<1>>
          /\ stderr = <<"Error: " \o Display(calls[1].result.err)>>
          /\ stdout = Announced
    /\ Len(stdout) > 1 =>
          /\ Returned(1) /\ calls[1].result.tag = "Ok"
          /\ exit_code = <<0>>
    /\ exit_code = <<0>> => Returned(1) /\ calls[1].result.tag = "Ok"

C15_Witness ==
    /\ main.pc = "exited"
    /\ Returned(1)
    /\ IsErr(1, "NetworkError")
    /\ exit_code = <<1>>
    /\ stderr = <<"Error: Network error: missing field temp_c">>

(***************************************************************************)
(* C16: for every units string the labels of the report agree with the     *)
(* fields fetch_weather read: the imperial labels are printed exactly when *)
(* the Fahrenheit and mph fields were selected, else the metric labels     *)
(* with the Celsius and kph fields.                                        *)
(***************************************************************************)
C16_LabelsAgreeWithFields ==
    main.pc = "exited" /\ Returned(1) /\ calls[1].result.tag = "Ok" =>
        LET imperial == Selected(1) = Fahrenheit(1)
            degrees == IF imperial THEN "°F" ELSE "°C"
            speed == IF imperial THEN "mph" ELSE "km/h"
        IN  /\ Selected(1) \in {Fahrenheit(1), Celsius(1)}
            /\ Fahrenheit(1) # Celsius(1)
            /\ Len(stdout) = 10
            /\ stdout[5] = "Temperature: " \o FloatText(Selected(1)[1]) \o degrees
            /\ stdout[6] = "Feels like: " \o FloatText(Selected(1)[2]) \o degrees
            /\ stdout[9] = "Wind speed: " \o FloatText(Selected(1)[3]) \o " " \o speed

C16_Witness ==
    /\ main.pc = "exited"
    /\ main.units = "Imperial"
    /\ Returned(1)
    /\ calls[1].result.tag = "Ok"
    /\ calls[1].http_response.body.json = LondonDoc
    /\ Len(stdout) = 10
    /\ stdout[5] = "Temperature: 15°C"
    /\ stdout[6] = "Feels like: 14°C"
    /\ stdout[9] = "Wind speed: 10 km/h"

(***************************************************************************)
(* C20: without WEATHER_API_KEY in the environment the program ends before *)
(* a client exists, before fetch_weather is called and before any request; *)
(* with it, even when it is the empty string, the client gets the key as   *)
(* it is.                                                                  *)
(***************************************************************************)
C20_KeyDecidesRequest ==
    /\ ~main.env.set =>
          /\ ~main.client
          /\ \A i \in CallIds : calls[i] = IdleCall
          /\ stdout = <<>>
          /\ main.pc = "exited" => exit_code # <<0>> /\ exit_code # <<>>
    /\ main.client => main.env.set /\ api_key = main.env.value
    /\ \A i \in CallIds :
          calls[i].pc # "idle" =>
              /\ main.client
              /\ calls[i].url = Url(main.env.value, main.city)

C20_Witness ==
    /\ main.env = SetTo("")
    /\ main.city = "London"
    /\ calls[1].requests = 1
    /\ calls[1].url = "https://api.weatherapi.com/v1/current.json?key=&q=London&aqi=no"

(***************************************************************************)
(* C17: fetch_weather does not check the city: for every city, the empty   *)
(* one too, it builds the URL with the city as given and sends the         *)
(* request; no call ends before its request is sent, and what a call with  *)
(* an empty city returns is decided by the response alone.                 *)
(***************************************************************************)
C17_CityIsNotValidated ==
    \A i \in CallIds :
        /\ calls[i].pc # "idle" =>
              /\ calls[i].path[1] = "Built"
              /\ calls[i].url = "https://api.weatherapi.com/v1/current.json?key="
                                   \o api_key \o "&q=" \o calls[i].city \o "&aqi=no"
        /\ Returned(i) =>
              /\ SubSeq(calls[i].path, 1, 2) = <<"Built", "Sent">>
              /\ calls[i].requests = 1
              /\ calls[i].http_response # NoResponse
        /\ Returned(i) /\ calls[i].city = "" =>
              /\ ~IsErr(i, "CityNotFound")
              /\ calls[i].result = Alone(i)

C17_Witness ==
    \E i \in CallIds :
        /\ Returned(i)
        /\ calls[i].city = ""
        /\ calls[i].requests = 1
        /\ calls[i].url = "https://api.weatherapi.com/v1/current.json?key=KEY&q=&aqi=no"
        /\ calls[i].result.tag = "Ok"

(***************************************************************************)
(* C18: when the status is no success and reading the body as text fails,  *)
(* the call returns NetworkError, not ApiError, and the error holds        *)
(* nothing of the status.                                                  *)
(***************************************************************************)
C18_BodyReadFailureLosesStatus ==
    \A i \in CallIds :
        Returned(i) /\ NonSuccess(i) /\ ~calls[i].http_response.body.readable =>
            /\ IsErr(i, "NetworkError")
            /\ ~IsErr(i, "ApiError")
            /\ calls[i].line = 49
            /\ DOMAIN calls[i].result.err = {"variant", "source"}
            /\ calls[i].result.err.source = calls[i].http_response.body.cause

C18_Witness ==
    \E i \in CallIds :
        /\ Returned(i)
        /\ calls[i].http_response = Response(500, BrokenBody)
        /\ calls[i].result
              = Err(NetworkError("connection closed before message completed"))

(***************************************************************************)
(* C19: every error fetch_weather returns is ApiError or NetworkError;     *)
(* ParseError and CityNotFound come from no path, not from a success body  *)
(* that fails to decode and not from a response that says the city was     *)
(* not found.                                                              *)
(***************************************************************************)
NotFoundBody ==
    JsonBody([error |-> [code |-> 1006, message |-> "No matching location found."]])

C19_OnlyApiAndNetworkErrors ==
    \A i \in CallIds :
        /\ calls[i].result.tag = "Err" =>
              calls[i].result.err.variant \in {"ApiError", "NetworkError"}
        /\ Returned(i) /\ Success(i) /\ Undecodable(calls[i].http_response.body) =>
              IsErr(i, "NetworkError")
        /\ Returned(i) /\ GotResponse(i) /\ calls[i].http_response.body = NotFoundBody =>
              IF IsSuccess(calls[i].http_response.status)
              THEN IsErr(i, "NetworkError") ELSE IsErr(i, "ApiError")

C19_Witness ==
    \E i \in CallIds :
        /\ Returned(i)
        /\ calls[i].http_response = Response(404, NotFoundBody)
        /\ IsErr(i, "ApiError")

(***************************************************************************)
(* What the claims about cp10.rs speak of.                                 *)
(***************************************************************************)
Fields(row) == Split(row, ",")

Missing(row, k) == k > Len(Fields(row)) \/ Blank(Fields(row)[k])

Spaced(s) == s # Trim(s)

Signed(s) == s # "" /\ Char(s, 1) \in {"+", "-"}

Minus(s) == s # "" /\ Char(s, 1) = "-"

AllDigits(s) == s # "" /\ \A i \in 1..Len(s) : IsDigit(Char(s, i))

\* more digits than a u32 has, or as many and a greater number
AboveU32(s) ==
    /\ AllDigits(s)
    /\ \/ Len(s) > 10
       \/ /\ Len(s) = 10
          /\ \E i \in 1..10 :
                /\ DigitOf(Char(s, i)) > DigitOf(Char("4294967295", i))
                /\ SubSeq(s, 1, i - 1) = SubSeq("4294967295", 1, i - 1)

\* the row holds the two deed counts and nothing before them
OnlyDeedCounts(row) ==
    /\ Len(Fields(row)) = 2
    /\ AllDigits(Fields(row)[1])
    /\ AllDigits(Fields(row)[2])

\* the ratio good / (good + 2 * bad) taken exactly
is_nice_exact(good, bad) ==
    IF good = <<0, 0>> /\ bad = <<0, 0>> THEN FALSE
    ELSE AtLeastTimes(good, 6, bad)

(***************************************************************************)
(* C21: Kid::parse_row returns ParseError::NoName for an empty row and     *)
(* for a row that holds only the two deed counts, such as 0,0.             *)
(***************************************************************************)
C21_NoNameWhenNameLeftOut ==
    kid # NotCalled /\ (csv_row = "" \/ OnlyDeedCounts(csv_row)) =>
        kid = Err("NoName")

(***************************************************************************)
(* C22: Kid::parse_row checks name, good deeds, bad deeds in this order    *)
(* and returns the first fault only.  A field that is absent or blank is   *)
(* the missing error of that field; a deed field that is there, not blank  *)
(* and does not parse as u32 is the invalid error of that field.           *)
(***************************************************************************)
\* the fault of deed field k, "" when it has none
DeedFault(row, k, missing, invalid, unparsable) ==
    IF Missing(row, k) THEN missing
    ELSE IF unparsable THEN invalid
    ELSE ""

FirstFault(row, goodUnparsable, badUnparsable) ==
    IF row = "" \/ Missing(row, 1) THEN "NoName"
    ELSE IF DeedFault(row, 2, "NoGoodDeeds", "InvalidGoodDeeds", goodUnparsable) # ""
         THEN DeedFault(row, 2, "NoGoodDeeds", "InvalidGoodDeeds", goodUnparsable)
    ELSE DeedFault(row, 3, "NoBadDeeds", "InvalidBadDeeds", badUnparsable)

ReturnsFirstFault(fault) ==
    IF fault = "" THEN kid.tag = "Ok" ELSE kid = Err(fault)

\* as first stated: a field with any sign does not parse
C22_AnySignIsInvalid ==
    kid # NotCalled =>
        LET unparsable(k) ==
                /\ ~Missing(csv_row, k)
                /\ \/ ~parse_u32(Fields(csv_row)[k]).ok
                   \/ Spaced(Fields(csv_row)[k])
                   \/ Signed(Fields(csv_row)[k])
                   \/ AboveU32(Fields(csv_row)[k])
        IN  ReturnsFirstFault(FirstFault(csv_row, unparsable(2), unparsable(3)))

\* C22, with the sign that does not parse being the minus sign
C22_FirstFaultOnly ==
    kid # NotCalled =>
        LET f == Fields(csv_row)
            unparsable(k) == ~Missing(csv_row, k) /\ ~parse_u32(f[k]).ok
            refused(k) ==
                /\ ~Missing(csv_row, k)
                /\ Spaced(f[k]) \/ Minus(f[k]) \/ AboveU32(f[k])
        IN  /\ ReturnsFirstFault(FirstFault(csv_row, unparsable(2), unparsable(3)))
            /\ \A k \in {2, 3} : refused(k) => unparsable(k)
            /\ \A k \in {2, 3} :
                  ~Missing(csv_row, k) /\ Len(f[k]) > 1 /\ Char(f[k], 1) = "+"
                     => parse_u32(f[k]) = parse_u32(SubSeq(f[k], 2, Len(f[k])))

C22_Witness ==
    /\ csv_row = "alice,+5,-5"
    /\ kid = Err("InvalidBadDeeds")

(***************************************************************************)
(* C23: when Kid::parse_row succeeds the name is the first field as it is  *)
(* written, not trimmed; the niceness is Nice(good_deeds) when is_nice     *)
(* holds of the two counts and Naughty otherwise; fields after the third   *)
(* are ignored.                                                            *)
(***************************************************************************)
\* the row up to its first comma
FirstField(row) ==
    IF \E i \in 1..Len(row) : Char(row, i) = ","
    THEN SubSeq(row, 1, (CHOOSE i \in 1..Len(row) :
                            Char(row, i) = "," /\ \A j \in 1..(i - 1) : Char(row, j) # ",") - 1)
    ELSE row

FirstThree(row) ==
    Fields(row)[1] \o "," \o Fields(row)[2] \o "," \o Fields(row)[3]

C23_KidOfRow ==
    /\ kid # NotCalled /\ kid.tag = "Ok" =>
          LET good == parse_u32(Fields(csv_row)[2]).value
              bad  == parse_u32(Fields(csv_row)[3]).value
          IN  /\ kid.data.name = FirstField(csv_row)
              /\ is_nice(good, bad) => kid.data.niceness = Nice(good)
              /\ ~is_nice(good, bad) => kid.data.niceness = Naughty
    /\ kid # NotCalled /\ Len(Fields(csv_row)) > 3 =>
          kid = parse_row(FirstThree(csv_row))

C23_Witness ==
    /\ csv_row = " bob ,5,0,extra"
    /\ kid = Ok(Kid(" bob ", Nice(U32(5))))

(***************************************************************************)
(* C24: Kid::is_nice(good, bad) is false when both counts are 0 and is     *)
(* otherwise true exactly when good / (good + 2 * bad) >= 3/4, that is     *)
(* when good >= 6 * bad.                                                   *)
(***************************************************************************)
C24_NiceIffSixTimes ==
    nice # NotCalled =>
        /\ nice.value = is_nice_exact(good_deeds, bad_deeds)
        /\ good_deeds # U32(0) /\ bad_deeds = U32(0) => nice.value
        /\ good_deeds = U32(0) => ~nice.value

(***************************************************************************)
(* C25: longer_wish(s1, s2) trims both arguments and compares the counts   *)
(* of their characters: it returns Some of the trimmed argument that has   *)
(* strictly more characters, None exactly when the counts are equal, and   *)
(* what it returns is a slice of one of the two arguments.                 *)
(***************************************************************************)
Argument(k) == IF k = 1 THEN s1 ELSE s2

\* the slice is argument k without the white space at its two ends
IsTrimOf(slice, k) ==
    /\ slice.of = k
    /\ 1 <= slice.from /\ slice.from <= slice.to /\ slice.to <= Len(Argument(k))
    /\ Blank(SubSeq(Argument(k), 1, slice.from - 1))
    /\ Blank(SubSeq(Argument(k), slice.to + 1, Len(Argument(k))))
    /\ Char(Argument(k), slice.from) \notin WhiteSpace
    /\ Char(Argument(k), slice.to) \notin WhiteSpace

\* the characters of argument k that are left when it is trimmed
Kept(k) ==
    Cardinality({i \in 1..Len(Argument(k)) :
                    /\ ~Blank(SubSeq(Argument(k), 1, i))
                    /\ ~Blank(SubSeq(Argument(k), i, Len(Argument(k))))})

C25_LongerTrimmedSlice ==
    wish # NotCalled =>
        /\ Kept(1) > Kept(2) => wish.tag = "Some" /\ IsTrimOf(wish.value, 1)
        /\ Kept(2) > Kept(1) => wish.tag = "Some" /\ IsTrimOf(wish.value, 2)
        /\ wish = None <=> Kept(1) = Kept(2)
        /\ wish.tag = "Some" =>
              \E k \in {1, 2} :
                  /\ IsTrimOf(wish.value, k)
                  /\ CharCount(wish.value) = Kept(k)

C25_Witness ==
    /\ s1 = "éé"
    /\ s2 = " abc\n"
    /\ wish = Some(Slice(2, 2, 4))
    /\ stdout[Len(stdout)] = "Longer string: 'abc'\n"

(***************************************************************************)
(* C26: find_best_location returns the error "No locations provided" if    *)
(* and only if the vector is empty; for a vector that is not empty it      *)
(* returns Ok with an element of the vector; no index it uses is out of    *)
(* bounds.                                                                 *)
(***************************************************************************)
Elements == {locations[j] : j \in 1..Len(locations)}

C26_ErrorIffEmpty ==
    /\ found # Panic
    /\ best # NotCalled => best \in Elements
    /\ found # NotCalled =>
          /\ found = Err("No locations provided") <=> locations = <<>>
          /\ locations # <<>> => found.tag = "Ok" /\ found.data \in Elements
          /\ found.tag \in {"Ok", "Err"}

C26_Witness ==
    /\ locations = <<>>
    /\ found = Err("No locations provided")
    /\ best = NotCalled

(***************************************************************************)
(* C27: for a vector that is not empty find_best_location returns the      *)
(* earliest element of greatest density, the density being snowballs       *)
(* divided by area and 0 when the area is 0: no element has a strictly     *)
(* greater density than the result and no earlier element has an equal     *)
(* density.                                                                *)
(***************************************************************************)
\* snowballs by area as a fraction <<numerator, denominator>>
SnowPerArea(l) ==
    IF l.area.num = 0 THEN <<0, 1>>
    ELSE IF l.area.num > 0 THEN <<l.snow * l.area.den, l.area.num>>
    ELSE <<(-l.snow) * l.area.den, -l.area.num>>

Denser(a, b) ==
    /\ ~a.area.nan /\ ~b.area.nan
    /\ SnowPerArea(a)[1] * SnowPerArea(b)[2] > SnowPerArea(b)[1] * SnowPerArea(a)[2]

AsDense(a, b) ==
    /\ ~a.area.nan /\ ~b.area.nan
    /\ SnowPerArea(a)[1] * SnowPerArea(b)[2] = SnowPerArea(b)[1] * SnowPerArea(a)[2]

C27_EarliestOfGreatestDensity ==
    found # NotCalled /\ locations # <<>> =>
        /\ found.tag = "Ok"
        /\ \E r \in 1..Len(locations) :
              /\ locations[r] = found.data
              /\ \A j \in 1..Len(locations) : ~Denser(locations[j], locations[r])
              /\ \A j \in 1..(r - 1) : ~AsDense(locations[j], locations[r])

C27_Witness ==
    /\ locations = <<Location(4, F64(4), 2), Location(1, F64(2), 4),
                     Location(2, F64(1), 2)>>
    /\ found = Ok(Location(1, F64(2), 4))
    /\ rest = <<>>

====
